---- MODULE Spec2Model ----
(***************************************************************************)
(* Control/actuation engine of rv-thermostat: RelayOut, ActuatorController,*)
(* ThermostatController.tick and the UI handlers that drive them.          *)
(*                                                                         *)
(* Temperatures, setpoints, deadbands and offsets are in tenths of a       *)
(* degree Celsius (22.6 C is 226); times are whole seconds of time.time(). *)
(* The applications are single-threaded (Tk main loop or a while loop), so *)
(* one handler runs to completion, blocking sleeps included, before the    *)
(* next one starts; time.sleep advances the clock inside a handler.        *)
(***************************************************************************)
EXTENDS Integers, Sequences, FiniteSets, TLC

\* ---------------------------------------------------------------- bounds
MaxTime == 5              \* no handler starts after this clock value
MaxPending == 1           \* fan-test callbacks that may be queued at once
CompressorMinOffS == 3    \* configured compressor_min_off_s of the run
FanLeadS == 1             \* configured fan_lead_s of the run
FanLagS == 2              \* configured fan_lag_s of the run
MaxCalls == 8             \* calls made on the single relay
MaxDays == 1              \* midnights the calendar clock may pass
MaxChanges == 2           \* runtime changes of the control configuration
LongMinOffS == 6          \* a compressor_min_off_s longer than two fan lags and a lead
MaxQueued == 2            \* _tick callbacks of the monitor that may be queued at once

\* ------------------------------------------------------- program constants
None == -1                \* an unset Optional field (time or temperature)
FanTestS == 5             \* self.after(5000, fan.off)
BumpStep == 5             \* bump_setpoint(+-0.5)
DefaultSetpoint == 220    \* Control.setpoint_c = 22.0
DefaultDeadband == 5      \* Control.deadband_c = 0.5
DefaultOffset == 0        \* Control.reading_offset_c = 0.0
MaxEvents == 6            \* lst[:6], events[:6], six editor rows
Colon == 10               \* ':' sorts after the digits '0'..'9' (0..9)
LoopSleepS == 2           \* time.sleep(2.0) of the headless loop
PeriodS == 1              \* ThermostatMonitor(period_ms=1000)

\* ------------------------------------------------------------ input sets
Modes == {"off", "heat", "cool", "auto"}
FanModes == {"manual", "off"}   \* two of the four FanScreen buttons
Apps == {"app", "ui_tk", "ui_touch"}
Temps == {214, 215, 223, 225, 226}
Setpoints == {220, 225}
Deadbands == {0, 5}
Offsets == {0, 10}
Relays == {"heat", "cool", "fan"}
TickOps == {"control_tick", "power_off", "ModeScreen_set", "FanScreen_set"}

VARIABLES
  app,          \* which entry point runs: apps/app.py, apps/ui_tk.py, apps/ui_touch.py
  closed,       \* the entry point has shut down
  cfg,          \* the live Control configuration
  s,            \* the controller's State (plus the fan_mode attribute the UI sets)
  o,            \* Outputs: cached logical state of each RelayOut
  now,          \* time.time()
  pending,      \* due times of the queued fan-test callbacks
  op,           \* history: the handler that ran last
  pre,          \* history: current_mode and relay states when that handler started
  raw,          \* history: the sensor reading of the last tick
  log,          \* history: the RelayOut.set calls of the last handler
  cool_off_at,  \* history: when the cool relay was last driven off
  cool_idle_at, \* history: when the cool relay went off in the last cooling -> idle stop
  file,         \* content of config/schedule.yaml: day entries in key order
  sch,          \* ctrl._schedule, loaded once by build_runtime
  ed_sch,       \* ScheduleScreen.sch, the editor's own copy
  when,         \* dt.datetime.now(): weekday, minute of the day, days since start
  last_applied, \* ctrl._last_applied, the dedup key
  res,          \* history: what the last evaluate call returned
  spre,         \* history: mode, setpoint and dedup key when sched_loop started
  applied_at,   \* history: the datetime of the last application of a result
  relay,        \* one RelayOut: polarity, cached state, level on the pin, GPIO.output calls
  rcall,        \* history: the last call on it: name, requested and cached state, calls so far
  reads,        \* history: sensor.read_c() calls of the last handler
  boot,         \* startup: "start" before build_runtime, then "running" or "failed"
  sensor,       \* cfg.sensor.kind and whether the DS18B20 device path exists
  refused,      \* history: "refused" once the guard has refused a cooling start,
                \* "retried" once cooling has started after that, else "no"
  changes,      \* history: runtime changes of the control configuration so far
  RUN,          \* apps/app.py: the module-level run flag the signal handler clears
  pc,           \* apps/app.py main(): the statement the loop is about to execute
  late,         \* history: ticks started after the run flag was cleared
  monitor       \* a ThermostatMonitor: _app set, queued _tick callbacks, what it published

ctlvars == <<app, closed, cfg, s, o, now, pending, op, pre, raw, log, cool_off_at, cool_idle_at,
             reads>>
schedvars == <<file, sch, ed_sch, when, last_applied, res, spre, applied_at>>
relayvars == <<relay, rcall>>
sysvars == <<boot, sensor, refused, changes>>
loopvars == <<RUN, pc, late>>
vars == <<ctlvars, schedvars, relayvars, sysvars, loopvars, monitor>>

\* ------------------------------------------------------------- RelayOut
\* m is the running handler's view: relay states o, clock t, controller
\* state s, and the list of set() calls made so far.
\* RelayOut.set: a hardware write happens only when on # cached state.
\* set() that can switch a relay on but never off again
RelayOut_set_latch(m, r, on, by) ==
  [m EXCEPT !.o[r] = (m.o[r] \/ on),
            !.log = Append(@, [relay |-> r, on |-> (m.o[r] \/ on), was |-> m.o[r],
                               at |-> m.t, by |-> by, wrote |-> (on /\ ~m.o[r])])]

\* set() without the state test: every call writes to the pin
RelayOut_set_always(m, r, on, by) ==
  [m EXCEPT !.o[r] = on,
            !.log = Append(@, [relay |-> r, on |-> on, was |-> m.o[r],
                               at |-> m.t, by |-> by, wrote |-> TRUE])]

RelayOut_set(m, r, on, by) ==
  [m EXCEPT !.o[r] = on,
            !.log = Append(@, [relay |-> r, on |-> on, was |-> m.o[r],
                               at |-> m.t, by |-> by, wrote |-> (on # m.o[r])])]

\* One relay with its pin.  _level without the polarity:
RelayOut_level_high(active_low, on) == IF on THEN "HIGH" ELSE "LOW"

\* RelayOut._level
RelayOut_level(active_low, on) ==
  IF on THEN (IF active_low THEN "LOW" ELSE "HIGH")
  ELSE (IF active_low THEN "HIGH" ELSE "LOW")

\* RelayOut.__init__: GPIO.setup(pin, OUT, initial=_level(False)); state = False
RelayOut_new(active_low) ==
  [active_low |-> active_low, state |-> FALSE,
   level |-> RelayOut_level(active_low, FALSE), writes |-> 0]

\* RelayOut.set on that relay: GPIO.output only when on # self.state
RelayOut_drive(rl, on) ==
  IF on # rl.state
  THEN [rl EXCEPT !.level = RelayOut_level(rl.active_low, on), !.state = on,
                  !.writes = @ + 1]
  ELSE rl

sleep(m, n) == [m EXCEPT !.t = @ + n]

\* ---------------------------------------------------- ActuatorController
all_off(m) ==
  RelayOut_set(RelayOut_set(RelayOut_set(m, "heat", FALSE, "all_off"),
                            "cool", FALSE, "all_off"),
               "fan", FALSE, "all_off")

heat_on(m) ==
  RelayOut_set(sleep(RelayOut_set(RelayOut_set(m, "cool", FALSE, "heat_on"),
                                  "fan", TRUE, "heat_on"),
                     FanLeadS),
               "heat", TRUE, "heat_on")

\* cool_on with the fan-lead wait left out
cool_on_nolead(m) ==
  RelayOut_set(RelayOut_set(RelayOut_set(m, "heat", FALSE, "cool_on"),
                            "fan", TRUE, "cool_on"),
               "cool", TRUE, "cool_on")

cool_on(m) ==
  RelayOut_set(sleep(RelayOut_set(RelayOut_set(m, "heat", FALSE, "cool_on"),
                                  "fan", TRUE, "cool_on"),
                     FanLeadS),
               "cool", TRUE, "cool_on")

hvac_off_with_fan_lag(m) ==
  RelayOut_set(sleep(RelayOut_set(RelayOut_set(m, "heat", FALSE, "hvac_off_with_fan_lag"),
                                  "cool", FALSE, "hvac_off_with_fan_lag"),
                     FanLagS),
               "fan", FALSE, "hvac_off_with_fan_lag")

\* --------------------------------------------------- ThermostatController
\* a guard that never lets the compressor start again once it has stopped
can_start_compressor_never(m, c) == m.s.last_cool_off_at = None

\* the guard with the minimum-off comparison dropped
can_start_compressor_always(m, c) == TRUE

can_start_compressor(m, c) ==
  IF m.s.last_cool_off_at = None THEN TRUE
  ELSE (m.t - m.s.last_cool_off_at) >= c.compressor_min_off_s

\* start_cooling that starts the fan before it asks the guard
start_cooling_fanfirst(m, c) ==
  IF ~can_start_compressor(m, c) THEN RelayOut_set(m, "fan", TRUE, "cool_on")
  ELSE LET a == cool_on(m)
       IN [a EXCEPT !.s.current_mode = "cooling", !.s.last_cool_on_at = a.t]

\* start_cooling that forgets to stamp last_cool_on_at
start_cooling_nostamp(m, c) ==
  IF ~can_start_compressor(m, c) THEN m
  ELSE [cool_on(m) EXCEPT !.s.current_mode = "cooling"]

start_cooling(m, c) ==
  IF ~can_start_compressor(m, c) THEN m
  ELSE LET a == cool_on(m)
       IN [a EXCEPT !.s.current_mode = "cooling", !.s.last_cool_on_at = a.t]

\* start_heating that forgets to drive the actuators
start_heating_noact(m) ==
  [m EXCEPT !.s.current_mode = "heating"]

start_heating(m) ==
  [heat_on(m) EXCEPT !.s.current_mode = "heating"]

\* _stop_hvac that never records last_cool_off_at
stop_hvac_nostamp(m) ==
  [hvac_off_with_fan_lag(m) EXCEPT !.s.current_mode = "idle"]

\* _stop_hvac that records last_cool_off_at whatever it stops
stop_hvac_stampalways(m) ==
  [hvac_off_with_fan_lag([m EXCEPT !.s.last_cool_off_at = m.t])
     EXCEPT !.s.current_mode = "idle"]

stop_hvac(m) ==
  LET a == IF m.s.current_mode = "cooling"
           THEN [m EXCEPT !.s.last_cool_off_at = m.t] ELSE m
  IN [hvac_off_with_fan_lag(a) EXCEPT !.s.current_mode = "idle"]

\* the heating comparison turned around
heat_call_gt(c, t) == c.mode \in {"heat", "auto"} /\ t > c.setpoint_c - c.deadband_c

\* a cooling call that does not look at the configured mode
cool_call_anymode(c, t) == c.mode # "off" /\ t > c.setpoint_c + c.deadband_c

\* the cooling comparison with >= in place of >
cool_call_ge(c, t) == c.mode \in {"cool", "auto"} /\ t >= c.setpoint_c + c.deadband_c

cool_call(c, t) == c.mode \in {"cool", "auto"} /\ t > c.setpoint_c + c.deadband_c
heat_call(c, t) == c.mode \in {"heat", "auto"} /\ t < c.setpoint_c - c.deadband_c

\* a tick with true hysteresis: inside the band a running function keeps running
tick_hysteresis(m, c, reading) ==
  LET t  == reading
      m1 == [m EXCEPT !.s.last_temp_c = t, !.s.last_tick_at = m.t, !.reads = @ + 1]
      cm == m1.s.current_mode
  IN IF c.mode = "off"
       THEN IF cm # "off" THEN [all_off(m1) EXCEPT !.s.current_mode = "off"] ELSE m1
     ELSE IF ~cool_call(c, t) /\ ~heat_call(c, t)
       THEN m1
     ELSE IF cool_call(c, t) /\ cm # "cooling"
       THEN start_cooling(IF cm = "heating" THEN stop_hvac(m1) ELSE m1, c)
     ELSE IF heat_call(c, t) /\ cm # "heating"
       THEN start_heating(IF cm = "cooling" THEN stop_hvac(m1) ELSE m1)
     ELSE m1

\* a tick that returns in mode off before it has sampled the sensor
tick_nosample_off(m, c, reading) ==
  LET t  == reading
      m1 == [m EXCEPT !.s.last_temp_c = t, !.s.last_tick_at = m.t, !.reads = @ + 1]
      cm == m.s.current_mode
  IN IF c.mode = "off"
       THEN IF cm # "off" THEN [all_off(m) EXCEPT !.s.current_mode = "off"] ELSE m
     ELSE IF ~cool_call(c, t) /\ ~heat_call(c, t)
       THEN IF cm \in {"heating", "cooling"} THEN stop_hvac(m1) ELSE m1
     ELSE IF cool_call(c, t) /\ cm # "cooling"
       THEN start_cooling(IF cm = "heating" THEN stop_hvac(m1) ELSE m1, c)
     ELSE IF heat_call(c, t) /\ cm # "heating"
       THEN start_heating(IF cm = "cooling" THEN stop_hvac(m1) ELSE m1)
     ELSE m1

\* a tick that treats state off like a stopped function: no call ends idle
tick_off_to_idle(m, c, reading) ==
  LET t  == reading
      m1 == [m EXCEPT !.s.last_temp_c = t, !.s.last_tick_at = m.t, !.reads = @ + 1]
      cm == m1.s.current_mode
  IN IF c.mode = "off"
       THEN IF cm # "off" THEN [all_off(m1) EXCEPT !.s.current_mode = "off"] ELSE m1
     ELSE IF ~cool_call(c, t) /\ ~heat_call(c, t)
       THEN IF cm \in {"heating", "cooling"} THEN stop_hvac(m1)
            ELSE [m1 EXCEPT !.s.current_mode = "idle"]
     ELSE IF cool_call(c, t) /\ cm # "cooling"
       THEN start_cooling(IF cm = "heating" THEN stop_hvac(m1) ELSE m1, c)
     ELSE IF heat_call(c, t) /\ cm # "heating"
       THEN start_heating(IF cm = "cooling" THEN stop_hvac(m1) ELSE m1)
     ELSE m1

\* a tick that calls all_off() on every pass through the mode-off branch
tick_off_always(m, c, reading) ==
  LET t  == reading
      m1 == [m EXCEPT !.s.last_temp_c = t, !.s.last_tick_at = m.t, !.reads = @ + 1]
      cm == m1.s.current_mode
  IN IF c.mode = "off"
       THEN [all_off(m1) EXCEPT !.s.current_mode = "off"]
     ELSE IF ~cool_call(c, t) /\ ~heat_call(c, t)
       THEN IF cm \in {"heating", "cooling"} THEN stop_hvac(m1) ELSE m1
     ELSE IF cool_call(c, t) /\ cm # "cooling"
       THEN start_cooling(IF cm = "heating" THEN stop_hvac(m1) ELSE m1, c)
     ELSE IF heat_call(c, t) /\ cm # "heating"
       THEN start_heating(IF cm = "cooling" THEN stop_hvac(m1) ELSE m1)
     ELSE m1

\* tick: the reading is used as returned by the sensor; reading_offset_c and
\* s.fan_mode are not read anywhere in it.
tick(m, c, reading) ==
  LET t  == reading
      m1 == [m EXCEPT !.s.last_temp_c = t, !.s.last_tick_at = m.t, !.reads = @ + 1]
      cm == m1.s.current_mode
  IN IF c.mode = "off"
       THEN IF cm # "off" THEN [all_off(m1) EXCEPT !.s.current_mode = "off"] ELSE m1
     ELSE IF ~cool_call(c, t) /\ ~heat_call(c, t)
       THEN IF cm \in {"heating", "cooling"} THEN stop_hvac(m1) ELSE m1
     ELSE IF cool_call(c, t) /\ cm # "cooling"
       THEN start_cooling(IF cm = "heating" THEN stop_hvac(m1) ELSE m1, c)
     ELSE IF heat_call(c, t) /\ cm # "heating"
       THEN start_heating(IF cm = "cooling" THEN stop_hvac(m1) ELSE m1)
     ELSE m1

\* ------------------------------------------------------------ schedule.py
\* A time string is the tuple of its characters: digits are 0..9 and ':' is
\* Colon, so that the order of the numbers is the order of the code points.
DAYS == <<"monday", "tuesday", "wednesday", "thursday", "friday", "saturday", "sunday">>
DayNames == {DAYS[i] : i \in DOMAIN DAYS}
\* sorted(DAYS), the key order yaml.safe_dump(sort_keys=True) writes
SortedDays == <<"friday", "monday", "saturday", "sunday", "thursday", "tuesday", "wednesday">>

\* Python's str <= str: lexicographic by code point, a proper prefix is smaller.
RECURSIVE StrLE(_, _)
StrLE(a, b) ==
  IF a = <<>> THEN TRUE
  ELSE IF b = <<>> THEN FALSE
  ELSE IF Head(a) < Head(b) THEN TRUE
  ELSE IF Head(a) > Head(b) THEN FALSE
  ELSE StrLE(Tail(a), Tail(b))

FirstN(l, n) == SubSeq(l, 1, IF Len(l) < n THEN Len(l) ELSE n)

\* list.sort(key=lambda E: E.time): stable, ascending by the time string.
RECURSIVE InsertByTime(_, _)
InsertByTime(e, l) ==
  IF l = <<>> THEN <<e>>
  ELSE IF StrLE(Head(l).time, e.time) THEN <<Head(l)>> \o InsertByTime(e, Tail(l))
  ELSE <<e>> \o l

RECURSIVE SortByTime(_)
SortByTime(l) ==
  IF l = <<>> THEN <<>>
  ELSE InsertByTime(l[Len(l)], SortByTime(SubSeq(l, 1, Len(l) - 1)))

\* A record of the YAML file: `missing` names the keys it lacks and sp_text
\* says that its setpoint_c is a text float() cannot parse.
Event(tm, md, sp) == [time |-> tm, mode |-> md, setpoint_c |-> sp]
\* Event(time=str(e['time']), mode=str(e['mode']), setpoint_c=float(e['setpoint_c']))
\* raises, and the record is skipped, on a missing key or an unparsable setpoint.
Raises(r) == r.missing # {} \/ r.sp_text

RECURSIVE load_events(_)
load_events(lst) ==
  IF lst = <<>> THEN <<>>
  ELSE IF Raises(Head(lst)) THEN load_events(Tail(lst))
  ELSE <<Event(Head(lst).time, Head(lst).mode, Head(lst).setpoint_c)>>
         \o load_events(Tail(lst))

\* data.get(d, []) or []
data_get(f, d) ==
  IF \E i \in DOMAIN f : f[i].day = d
  THEN f[CHOOSE i \in DOMAIN f : f[i].day = d].recs
  ELSE <<>>

load_schedule(f) ==
  [d \in DayNames |-> SortByTime(load_events(FirstN(data_get(f, d), MaxEvents)))]

Dumped(e) == [time |-> e.time, mode |-> e.mode, setpoint_c |-> e.setpoint_c,
              missing |-> {}, sp_text |-> FALSE]

save_schedule(S) ==
  [i \in DOMAIN SortedDays |->
     [day |-> SortedDays[i],
      recs |-> [j \in DOMAIN FirstN(S[SortedDays[i]], MaxEvents) |->
                  Dumped(S[SortedDays[i]][j])]]]

\* when.strftime('%H:%M') and when.strftime('%w-%H:%M') (%w: Sunday is 0)
strftime_HM(tod) ==
  <<(tod \div 60) \div 10, (tod \div 60) % 10, Colon, (tod % 60) \div 10, (tod % 60) % 10>>
strftime_key(w) == <<(w.wd + 1) % 7, strftime_HM(w.tod)>>

NoEvent == [found |-> FALSE, mode |-> "", setpoint_c |-> None]
Found(e) == [found |-> TRUE, mode |-> e.mode, setpoint_c |-> e.setpoint_c]

\* the for loop of evaluate: how many leading events have time <= now_hm
RECURSIVE LeadingLE(_, _)
LeadingLE(evs, hm) ==
  IF evs = <<>> THEN 0
  ELSE IF StrLE(Head(evs).time, hm) THEN 1 + LeadingLE(Tail(evs), hm)
  ELSE 0

\* evaluate with < in place of <= in the loop
evaluate_strict(S, w) ==
  LET evs == S[DAYS[w.wd + 1]]
      hm == strftime_HM(w.tod)
      k == Cardinality({i \in 1..LeadingLE(evs, hm) : evs[i].time # hm})
      evs_prev == S[DAYS[((w.wd - 1) % 7) + 1]]
  IN IF evs = <<>> THEN NoEvent
     ELSE IF k > 0 THEN Found(evs[k])
     ELSE IF evs_prev # <<>> THEN Found(evs_prev[Len(evs_prev)])
     ELSE NoEvent

evaluate(S, w) ==
  LET evs == S[DAYS[w.wd + 1]]
      k == LeadingLE(evs, strftime_HM(w.tod))
      evs_prev == S[DAYS[((w.wd - 1) % 7) + 1]]
  IN IF evs = <<>> THEN NoEvent
     ELSE IF k > 0 THEN Found(evs[k])
     ELSE IF evs_prev # <<>> THEN Found(evs_prev[Len(evs_prev)])
     ELSE NoEvent

\* ------------------------------------------------------------- runtime.py
\* apply_schedule_if_due without the dedup test
apply_schedule_always(c, key, S, w) ==
  LET r == evaluate(S, w)
  IN IF r.found
     THEN [cfg |-> [c EXCEPT !.mode = r.mode, !.setpoint_c = r.setpoint_c],
           key |-> strftime_key(w), res |-> r, called |-> TRUE, applied |-> TRUE]
     ELSE [cfg |-> c, key |-> key, res |-> r, called |-> TRUE, applied |-> FALSE]

\* apply_schedule_if_due that records the minute but leaves the mode alone
apply_schedule_setpoint_only(c, key, S, w) ==
  IF key = strftime_key(w)
  THEN [cfg |-> c, key |-> key, res |-> NoEvent, called |-> FALSE, applied |-> FALSE]
  ELSE LET r == evaluate(S, w)
       IN IF r.found
          THEN [cfg |-> [c EXCEPT !.setpoint_c = r.setpoint_c],
                key |-> strftime_key(w), res |-> r, called |-> TRUE, applied |-> TRUE]
          ELSE [cfg |-> c, key |-> key, res |-> r, called |-> TRUE, applied |-> FALSE]

\* apply_schedule_if_due(ctrl, now); a Schedule object is always truthy.
apply_schedule_if_due(c, key, S, w) ==
  IF key = strftime_key(w)
  THEN [cfg |-> c, key |-> key, res |-> NoEvent, called |-> FALSE, applied |-> FALSE]
  ELSE LET r == evaluate(S, w)
       IN IF r.found
          THEN [cfg |-> [c EXCEPT !.mode = r.mode, !.setpoint_c = r.setpoint_c],
                key |-> strftime_key(w), res |-> r, called |-> TRUE, applied |-> TRUE]
          ELSE [cfg |-> c, key |-> key, res |-> r, called |-> TRUE, applied |-> FALSE]

\* ------------------------------------------------- ScheduleScreen (editor)
FormatOK(tm) ==
  /\ Len(tm) = 5 /\ tm[3] = Colon
  /\ \A i \in {1, 2, 4, 5} : tm[i] \in 0..9

\* _read_rows: the time is added to `used` before the setpoint is parsed.
RECURSIVE read_rows_from(_, _)
read_rows_from(rows, used) ==
  IF rows = <<>> THEN <<>>
  ELSE LET r == Head(rows)
       IN IF r.time = <<>> \/ ~FormatOK(r.time) \/ r.time \in used
          THEN read_rows_from(Tail(rows), used)
          ELSE IF r.sp_text
          THEN read_rows_from(Tail(rows), used \cup {r.time})
          ELSE <<Event(r.time, IF r.mode = "" THEN "off" ELSE r.mode, r.setpoint_c)>>
                 \o read_rows_from(Tail(rows), used \cup {r.time})

read_rows(rows) == FirstN(SortByTime(read_rows_from(rows, {})), MaxEvents)

\* ------------------------------------------------ sample schedule content
T0600 == <<0, 6, Colon, 0, 0>>
T0800 == <<0, 8, Colon, 0, 0>>
T1000 == <<1, 0, Colon, 0, 0>>
T1200 == <<1, 2, Colon, 0, 0>>
T930 == <<9, Colon, 3, 0>>          \* '9:30', not zero-padded
Rec(tm, md, sp) == [time |-> tm, mode |-> md, setpoint_c |-> sp,
                    missing |-> {}, sp_text |-> FALSE]
RecBadSetpoint(tm, md) == [Rec(tm, md, None) EXCEPT !.sp_text = TRUE]
RecNoMode(tm, sp) == [Rec(tm, "", sp) EXCEPT !.missing = {"mode"}]

ListSorted == <<Rec(T0800, "heat", 220), Rec(T1000, "cool", 225)>>
ListUnsorted == <<Rec(T1000, "cool", 225), Rec(T0800, "heat", 220)>>
ListBadTime == <<Rec(T930, "auto", 220), Rec(T1000, "cool", 225)>>
ListDuplicate == <<Rec(T0800, "heat", 220), Rec(T0800, "cool", 225)>>
ListMalformed == <<RecBadSetpoint(T1000, "heat"), RecNoMode(T0600, 220),
                   Rec(T0800, "heat", 220)>>
ListLong == <<RecBadSetpoint(T1000, "heat"), Rec(T1000, "cool", 225),
              Rec(T0800, "heat", 220), Rec(T0600, "off", 220),
              Rec(T0800, "auto", 225), RecNoMode(T0600, 220),
              Rec(T1200, "heat", 225)>>
ListEvening == <<Rec(T1200, "off", 225)>>

MondayLists == {<<>>, ListUnsorted, ListBadTime, ListMalformed}
TuesdayLists == {<<>>, ListSorted, ListDuplicate, ListLong}
SundayLists == {<<>>, ListEvening}

MkFile(mon, tue, sun) ==
  SelectSeq(<<[day |-> "tuesday", recs |-> tue], [day |-> "monday", recs |-> mon],
              [day |-> "sunday", recs |-> sun]>>,
            LAMBDA e : e.recs # <<>>)
Files == {MkFile(mon, tue, sun) : mon \in MondayLists, tue \in TuesdayLists,
                                  sun \in SundayLists}

\* the rows a user may have typed into the editor
RowSets == {<<>>,
            <<Rec(T1000, "cool", 225), Rec(T0800, "heat", 220), Rec(T0800, "off", 220)>>,
            <<Rec(T930, "auto", 220), RecBadSetpoint(T0600, "heat"), Rec(T0600, "cool", 225),
              Rec(T1200, "", 220)>>}
EditDays == {"monday", "tuesday", "sunday"}

TodPoints == <<479, 480, 585, 615>>     \* 07:59, 08:00, 09:45, 10:15

\* ------------------------------------------------------------ bookkeeping
Machine == [o |-> o, t |-> now, s |-> s, log |-> <<>>, reads |-> 0]
Snapshot == [current_mode |-> s.current_mode, o |-> o,
             last_cool_off_at |-> s.last_cool_off_at, t |-> now,
             last_cool_on_at |-> s.last_cool_on_at]

CoolOffWrites(l) == {i \in DOMAIN l : l[i].relay = "cool" /\ ~l[i].on /\ l[i].was}
CoolOnWrites(l) == {i \in DOMAIN l : l[i].relay = "cool" /\ l[i].on /\ ~l[i].was}
LastOf(S) == CHOOSE i \in S : \A j \in S : j <= i

\* Commit what a handler did to the relays, the clock and the history.
Committed(name, m) ==
  /\ o' = m.o
  /\ now' = m.t
  /\ s' = m.s
  /\ log' = m.log
  /\ op' = name
  /\ pre' = Snapshot
  /\ cool_off_at' = IF CoolOffWrites(m.log) # {}
                    THEN m.log[LastOf(CoolOffWrites(m.log))].at ELSE cool_off_at
  /\ cool_idle_at' = IF /\ s.current_mode = "cooling"
                        /\ \E i \in CoolOffWrites(m.log) : m.log[i].by = "hvac_off_with_fan_lag"
                     THEN m.log[LastOf(CoolOffWrites(m.log))].at ELSE cool_idle_at
  /\ reads' = m.reads

\* A handler of the controller: nothing else changes.
Ran(name, m) ==
  /\ Committed(name, m)
  /\ UNCHANGED <<schedvars, relayvars, sysvars, loopvars, monitor>>

\* build_runtime has returned and the entry point has not shut down
Alive == boot = "running" /\ ~closed
Running == Alive /\ now <= MaxTime

\* ------------------------------------------------------------------ Init
\* load_config and the constructors of build_runtime
CtlInit ==
  /\ closed = FALSE
  /\ cfg \in [mode : Modes, setpoint_c : {DefaultSetpoint},
              deadband_c : {DefaultDeadband},
              compressor_min_off_s : {CompressorMinOffS},
              fan_lead_s : {FanLeadS}, fan_lag_s : {FanLagS},
              reading_offset_c : {DefaultOffset}]
  /\ s = [last_cool_off_at |-> None, last_cool_on_at |-> None,
          current_mode |-> "idle", last_temp_c |-> None, last_tick_at |-> None,
          fan_mode |-> "unset"]
  /\ o = [r \in Relays |-> FALSE]
  /\ now = 0
  /\ pending = {}
  /\ op = "init"
  /\ pre = [current_mode |-> "idle", o |-> [r \in Relays |-> FALSE],
            last_cool_off_at |-> None, t |-> 0, last_cool_on_at |-> None]
  /\ raw = None
  /\ log = <<>>
  /\ cool_off_at = None
  /\ cool_idle_at = None
  /\ reads = 0

\* The Monday on which the run starts, before the first schedule check.
Calendar(wd) == [wd |-> wd, tod |-> TodPoints[1], day |-> 0]
NoKey == <<>>             \* ctrl._last_applied = None
NoFile == <<>>            \* config/schedule.yaml is absent (or empty)
NoWhen == [wd |-> None, tod |-> None, day |-> None]

\* build_runtime: ctrl._schedule = load_schedule(path), ctrl._last_applied = None;
\* ScheduleScreen.__init__: self.sch = load_schedule(path).
SchedInit(f, wd) ==
  /\ file = f
  /\ sch = load_schedule(f)
  /\ ed_sch = load_schedule(f)
  /\ when = Calendar(wd)
  /\ last_applied = NoKey
  /\ res = NoEvent
  /\ spre = [mode |-> "", setpoint_c |-> None, key |-> NoKey, applied_at |-> NoWhen]
  /\ applied_at = NoWhen

\* RelayOut(pin, active_low), no call made yet
RelayInit(active_low) ==
  /\ relay = RelayOut_new(active_low)
  /\ rcall = [name |-> "init", on |-> FALSE, was |-> FALSE, wrote |-> FALSE, calls |-> 0]

\* RUN = True at import; main() is about to test it for the first time.
LoopInit ==
  /\ RUN = TRUE
  /\ pc = "while"
  /\ late = 0

\* ThermostatMonitor.__init__: no app yet, nothing queued, nothing published.
NoSnapshot == [ts |-> None, temp_c |-> None]
MonInit ==
  monitor = [app |-> FALSE, queued |-> <<>>, snap |-> NoSnapshot, raised |-> FALSE]

\* build_runtime has returned a controller: Sensor.kind defaults to 'mock'.
Started ==
  /\ boot = "running"
  /\ sensor = [kind |-> "mock", exists |-> FALSE]
  /\ refused = "no"
  /\ changes = 0
  /\ LoopInit
  /\ MonInit

\* The controller runs without a schedule file; Pins.active_low defaults to True.
Init ==
  /\ app \in Apps
  /\ CtlInit
  /\ SchedInit(NoFile, 0)
  /\ RelayInit(TRUE)
  /\ Started

\* --------------------------------------------------------------- handlers
\* The periodic tick: app.py main loop, ThermostatUI.control_tick, TouchUI.loop.
control_tick ==
  /\ Running
  /\ \E reading \in Temps :
       /\ raw' = reading
       /\ Ran("control_tick", tick(Machine, cfg, reading))
  /\ UNCHANGED <<app, closed, cfg, pending>>

\* ThermostatUI.apply_mode: the combobox only stores the mode.
apply_mode ==
  /\ Running /\ app = "ui_tk"
  /\ \E md \in Modes : cfg' = [cfg EXCEPT !.mode = md]
  /\ Ran("apply_mode", Machine)
  /\ UNCHANGED <<app, closed, pending, raw>>

\* ThermostatUI.power_off / MainScreen._power_off: mode off, then a tick.
power_off ==
  /\ Running /\ app \in {"ui_tk", "ui_touch"}
  /\ cfg' = [cfg EXCEPT !.mode = "off"]
  /\ \E reading \in Temps :
       /\ raw' = reading
       /\ Ran("power_off", tick(Machine, cfg', reading))
  /\ UNCHANGED <<app, closed, pending>>

\* ModeScreen._set: store the mode, then a tick.
ModeScreen_set ==
  /\ Running /\ app = "ui_touch"
  /\ \E md \in Modes : cfg' = [cfg EXCEPT !.mode = md]
  /\ \E reading \in Temps :
       /\ raw' = reading
       /\ Ran("ModeScreen_set", tick(Machine, cfg', reading))
  /\ UNCHANGED <<app, closed, pending>>

\* FanScreen._set: store fan_mode on the controller state, then a tick.
FanScreen_set ==
  /\ Running /\ app = "ui_touch"
  /\ \E f \in FanModes, reading \in Temps :
       /\ raw' = reading
       /\ Ran("FanScreen_set",
              tick([Machine EXCEPT !.s.fan_mode = f], cfg, reading))
  /\ UNCHANGED <<app, closed, cfg, pending>>

\* ThermostatUI.bump_setpoint: round((v + delta) * 2) / 2.
RoundHalf(x) == ((2 * x + BumpStep) \div (2 * BumpStep)) * BumpStep

bump_setpoint ==
  /\ Running /\ app = "ui_tk"
  /\ \E delta \in {-BumpStep, BumpStep} :
       /\ RoundHalf(cfg.setpoint_c + delta) \in Setpoints
       /\ cfg' = [cfg EXCEPT !.setpoint_c = RoundHalf(cfg.setpoint_c + delta)]
  /\ Ran("bump_setpoint", Machine)
  /\ UNCHANGED <<app, closed, pending, raw>>

\* SettingsScreen "Apply" buttons: deadband_c and reading_offset_c.
apply_deadband ==
  /\ Running /\ app = "ui_touch"
  /\ \E d \in Deadbands : cfg' = [cfg EXCEPT !.deadband_c = d]
  /\ Ran("apply_deadband", Machine)
  /\ UNCHANGED <<app, closed, pending, raw>>

apply_reading_offset ==
  /\ Running /\ app = "ui_touch"
  /\ \E x \in Offsets : cfg' = [cfg EXCEPT !.reading_offset_c = x]
  /\ Ran("apply_reading_offset", Machine)
  /\ UNCHANGED <<app, closed, pending, raw>>

\* ThermostatUI.fan_test: fan relay on now, fan relay off by a callback 5 s later.
fan_test ==
  /\ Running /\ app = "ui_tk"
  /\ Cardinality(pending) < MaxPending
  /\ pending' = pending \cup {now + FanTestS}
  /\ Ran("fan_test", RelayOut_set(Machine, "fan", TRUE, "fan_test"))
  /\ UNCHANGED <<app, closed, cfg, raw>>

\* The queued self.ctrl.act.o.fan.off, run by the main loop once it is due.
fan_test_off ==
  /\ Alive
  /\ \E due \in pending :
       /\ due <= now
       /\ pending' = pending \ {due}
  /\ Ran("fan_test_off", RelayOut_set(Machine, "fan", FALSE, "fan_test_off"))
  /\ UNCHANGED <<app, closed, cfg, raw>>

\* ThermostatUI.on_close and the finally block of app.py main():
\* all_off(), gpio cleanup, exit.  The controller state is not touched.
on_close ==
  /\ Alive /\ app \in {"ui_tk", "app"}
  /\ closed' = TRUE
  /\ pending' = {}
  /\ Ran("on_close", all_off(Machine))
  /\ UNCHANGED <<app, cfg, raw>>

\* ui_touch main(): WM_DELETE_WINDOW is bound to app.destroy() alone.
destroy ==
  /\ Alive /\ app = "ui_touch"
  /\ closed' = TRUE
  /\ Ran("destroy", Machine)
  /\ UNCHANGED <<app, cfg, pending, raw>>

\* The main loop is idle: a second passes.  A callback that is due runs first.
AdvanceTime ==
  /\ Alive /\ now < MaxTime
  /\ \A due \in pending : now < due
  /\ Ran("wait", sleep(Machine, 1))
  /\ UNCHANGED <<app, closed, cfg, pending, raw>>

Next ==
  \/ control_tick
  \/ apply_mode
  \/ power_off
  \/ ModeScreen_set
  \/ FanScreen_set
  \/ bump_setpoint
  \/ apply_deadband
  \/ apply_reading_offset
  \/ fan_test
  \/ fan_test_off
  \/ on_close
  \/ destroy
  \/ AdvanceTime

Spec == Init /\ [][Next]_vars

\* ------------------------------------------- the schedule loop (ui_touch)
\* TouchUI.sched_loop / ScheduleMonitor._tick: apply_schedule_if_due(ctrl, now()).
sched_loop ==
  /\ Alive
  /\ LET a == apply_schedule_if_due(cfg, last_applied, sch, when)
     IN /\ cfg' = a.cfg
        /\ last_applied' = a.key
        /\ res' = IF a.called THEN a.res ELSE res
        /\ applied_at' = IF a.applied THEN when ELSE applied_at
  /\ spre' = [mode |-> cfg.mode, setpoint_c |-> cfg.setpoint_c, key |-> last_applied,
              applied_at |-> applied_at]
  /\ op' = "sched_loop"
  /\ UNCHANGED <<app, closed, s, o, now, pending, pre, raw, log, cool_off_at, cool_idle_at, reads>>
  /\ UNCHANGED <<file, sch, ed_sch, when>>
  /\ UNCHANGED <<relayvars, sysvars, loopvars, monitor>>

\* The wall clock reaches the next sampled minute, or the first one of the
\* next day.  No schedule code reads the controller's seconds clock.
AdvanceWhen ==
  /\ Alive
  /\ \/ \E i \in 1..(Len(TodPoints) - 1) :
          /\ when.tod = TodPoints[i]
          /\ when' = [when EXCEPT !.tod = TodPoints[i + 1]]
     \/ /\ when.tod = TodPoints[Len(TodPoints)]
        /\ when.day < MaxDays
        /\ when' = [wd |-> (when.wd + 1) % 7, tod |-> TodPoints[1], day |-> when.day + 1]
  /\ op' = "clock"
  /\ UNCHANGED <<app, closed, cfg, s, o, now, pending, pre, raw, log, cool_off_at, cool_idle_at,
                 reads>>
  /\ UNCHANGED <<file, sch, ed_sch, last_applied, res, spre, applied_at>>
  /\ UNCHANGED <<relayvars, sysvars, loopvars, monitor>>

InitSched ==
  /\ app = "ui_touch"
  /\ CtlInit /\ cfg.mode = "auto"
  /\ \E f \in Files, wd \in {0, 6} : SchedInit(f, wd)
  /\ RelayInit(TRUE)
  /\ Started

NextSched ==
  \/ sched_loop
  \/ power_off
  \/ AdvanceWhen

SpecSched == InitSched /\ [][NextSched]_vars

\* ------------------------------------------------- the schedule editor
\* ScheduleScreen._save_day / _save_all on the picked day: the day's events
\* become _read_rows(), then the whole editor copy is saved.
save_day ==
  /\ Alive
  /\ \E d \in EditDays, rows \in RowSets :
       /\ ed_sch' = [ed_sch EXCEPT ![d] = read_rows(rows)]
       /\ file' = save_schedule(ed_sch')
  /\ op' = "save_day"
  /\ UNCHANGED <<app, closed, cfg, s, o, now, pending, pre, raw, log, cool_off_at, cool_idle_at,
                 reads>>
  /\ UNCHANGED <<sch, when, last_applied, res, spre, applied_at>>
  /\ UNCHANGED <<relayvars, sysvars, loopvars, monitor>>

InitFile ==
  /\ app = "ui_touch"
  /\ CtlInit /\ cfg.mode = "auto"
  /\ \E f \in Files : SchedInit(f, 0)
  /\ RelayInit(TRUE)
  /\ Started

NextFile == save_day

SpecFile == InitFile /\ [][NextFile]_vars

\* ------------------------------------------------------------- startup
\* DS18B20Sensor.__init__ without the test of the device path
DS18B20Sensor_new_nocheck(sn) == TRUE

\* DS18B20Sensor.__init__: raises FileNotFoundError unless the path exists
\* (TRUE: the sensor object is constructed).
DS18B20Sensor_new(sn) == sn.exists

\* build_runtime: the three relays are constructed (logical off), then the
\* sensor; if that raises, no controller is returned and the entry point
\* ends with the exception before its loop and its shutdown code.
build_runtime ==
  /\ boot = "start"
  /\ boot' = IF sensor.kind = "mock" \/ DS18B20Sensor_new(sensor)
             THEN "running" ELSE "failed"
  /\ o' = [r \in Relays |-> RelayOut_new(TRUE).state]
  /\ op' = "build_runtime"
  /\ pre' = Snapshot
  /\ log' = <<>>
  /\ UNCHANGED <<app, closed, cfg, s, now, pending, raw, cool_off_at, cool_idle_at, reads>>
  /\ UNCHANGED <<schedvars, relayvars, sensor, refused, changes, loopvars, monitor>>

InitBoot ==
  /\ app \in Apps
  /\ CtlInit /\ cfg.mode = "auto"
  /\ SchedInit(NoFile, 0)
  /\ RelayInit(TRUE)
  /\ boot = "start"
  /\ sensor \in [kind : {"mock", "ds18b20"}, exists : BOOLEAN]
  /\ refused = "no"
  /\ changes = 0
  /\ LoopInit
  /\ MonInit

NextBoot ==
  \/ build_runtime
  \/ control_tick
  \/ AdvanceTime
  \/ on_close

SpecBoot == InitBoot /\ [][NextBoot]_vars

\* ------------------------------------------- the headless loop, forever
\* apps/app.py: while RUN: ctrl.tick(); time.sleep(2.0).  The clock has no
\* bound here.  Only differences of time.time() values are ever read, so
\* once the clock passes LiveBase every stored time is moved back with it;
\* a time more than LiveBase ago is kept as 0, which is at least
\* compressor_min_off_s ago, as it really is.
LiveBase == CompressorMinOffS + FanLagS + FanLeadS
Shift(x, d) == IF x = None THEN None ELSE IF x < d THEN 0 ELSE x - d

Rebased(name, m, rf) ==
  LET d == IF m.t > LiveBase THEN m.t - LiveBase ELSE 0
      l == [i \in DOMAIN m.log |-> [m.log[i] EXCEPT !.at = Shift(@, d)]]
  IN /\ o' = m.o
     /\ now' = m.t - d
     /\ s' = [m.s EXCEPT !.last_cool_off_at = Shift(@, d),
                         !.last_cool_on_at = Shift(@, d),
                         !.last_tick_at = Shift(@, d)]
     /\ log' = l
     /\ op' = name
     /\ pre' = [Snapshot EXCEPT !.t = Shift(@, d), !.last_cool_off_at = Shift(@, d),
                                !.last_cool_on_at = Shift(@, d)]
     /\ cool_off_at' = IF CoolOffWrites(l) # {}
                       THEN l[LastOf(CoolOffWrites(l))].at ELSE Shift(cool_off_at, d)
     /\ cool_idle_at' = IF /\ s.current_mode = "cooling"
                           /\ \E i \in CoolOffWrites(l) : l[i].by = "hvac_off_with_fan_lag"
                        THEN l[LastOf(CoolOffWrites(l))].at ELSE Shift(cool_idle_at, d)
     /\ reads' = m.reads
     /\ refused' = rf
     /\ UNCHANGED <<schedvars, relayvars, boot, sensor, changes, loopvars, monitor>>

\* ctrl.tick() of the loop
live_tick ==
  /\ Alive
  /\ \E reading \in Temps : \E m \in {tick(Machine, cfg, reading)} :
          /\ raw' = reading
          /\ Rebased("control_tick", m,
                     IF m.s.current_mode = "cooling"
                     THEN (IF refused = "no" THEN "no" ELSE "retried")
                     ELSE IF cool_call(cfg, reading) /\ s.current_mode # "cooling"
                     THEN "refused"
                     ELSE IF refused = "retried" THEN "no" ELSE refused)
  /\ UNCHANGED <<app, closed, cfg, pending>>

\* time.sleep of the loop, a second at a time
live_sleep ==
  /\ Alive
  /\ \E m \in {sleep(Machine, 1)} : Rebased("wait", m, refused)
  /\ UNCHANGED <<app, closed, cfg, pending, raw>>

InitLive ==
  /\ app = "app"
  /\ CtlInit
  /\ SchedInit(NoFile, 0)
  /\ RelayInit(TRUE)
  /\ Started

NextLive ==
  \/ live_tick
  \/ live_sleep
  \/ on_close

\* The loop never stops by itself: it keeps ticking and its sleeps return.
SpecLive ==
  InitLive /\ [][NextLive]_vars /\ WF_vars(live_tick) /\ WF_vars(live_sleep)

\* ------------------------------------ the headless loop, line by line
\* apps/app.py main(): the statement after `at`, given the value of RUN
\* which ignores the run flag: while True
main_next_forever(at, run) ==
  IF at = "while" THEN "tick"
  ELSE IF at = "tick" THEN "sleep"
  ELSE IF at = "sleep" THEN "while"
  ELSE IF at = "all_off" THEN "gpio_cleanup"
  ELSE "done"

\* while RUN: ctrl.tick(); time.sleep(2.0) / finally: all_off(); gpio_cleanup()
main_next(at, run) ==
  IF at = "while" THEN (IF run THEN "tick" ELSE "all_off")
  ELSE IF at = "tick" THEN "sleep"
  ELSE IF at = "sleep" THEN "while"
  ELSE IF at = "all_off" THEN "gpio_cleanup"
  ELSE "done"

\* A statement of main() that touches neither relays nor controller state.
Stepped(name) ==
  /\ op' = name
  /\ UNCHANGED <<app, cfg, s, o, now, pending, pre, raw, log, cool_off_at, cool_idle_at, reads>>
  /\ UNCHANGED <<schedvars, relayvars, sysvars, monitor>>

\* while RUN: the flag is read.  No tick is started after MaxTime.
main_while ==
  /\ Alive /\ pc = "while"
  /\ RUN => now <= MaxTime
  /\ pc' = main_next(pc, RUN)
  /\ Stepped("while")
  /\ UNCHANGED <<closed, RUN, late>>

\* ctrl.tick().  A signal that arrives while the tick runs (its sleeps are
\* resumed after the handler returns) only clears RUN: the tick goes on.
main_tick ==
  /\ Alive /\ pc = "tick"
  /\ \E reading \in Temps, sig \in BOOLEAN :
       \E m \in {tick(Machine, cfg, reading)} :
          /\ raw' = reading
          /\ Committed("control_tick", m)
          /\ RUN' = (RUN /\ ~sig)
  /\ late' = IF RUN THEN late ELSE late + 1
  /\ pc' = main_next(pc, RUN)
  /\ UNCHANGED <<app, closed, cfg, pending>>
  /\ UNCHANGED <<schedvars, relayvars, sysvars, monitor>>

\* time.sleep(2.0)
main_sleep ==
  /\ Alive /\ pc = "sleep"
  /\ \E m \in {sleep(Machine, LoopSleepS)} : Committed("wait", m)
  /\ pc' = main_next(pc, RUN)
  /\ UNCHANGED <<app, closed, cfg, pending, raw, RUN, late>>
  /\ UNCHANGED <<schedvars, relayvars, sysvars, monitor>>

\* handle_sig, between two statements of main(): RUN = False
handle_sig ==
  /\ Alive /\ RUN
  /\ RUN' = FALSE
  /\ Stepped("handle_sig")
  /\ UNCHANGED <<closed, pc, late>>

\* finally: try: actuators.all_off()
main_all_off ==
  /\ Alive /\ pc = "all_off"
  /\ \E m \in {all_off(Machine)} : Committed("all_off", m)
  /\ pc' = main_next(pc, RUN)
  /\ UNCHANGED <<app, closed, cfg, pending, raw, RUN, late>>
  /\ UNCHANGED <<schedvars, relayvars, sysvars, monitor>>

\* finally: gpio_cleanup(); main() returns
main_gpio_cleanup ==
  /\ Alive /\ pc = "gpio_cleanup"
  /\ closed' = TRUE
  /\ pc' = main_next(pc, RUN)
  /\ Stepped("gpio_cleanup")
  /\ UNCHANGED <<RUN, late>>

InitLoop ==
  /\ app = "app"
  /\ CtlInit
  /\ SchedInit(NoFile, 0)
  /\ RelayInit(TRUE)
  /\ Started

NextLoop ==
  \/ main_while
  \/ main_tick
  \/ main_sleep
  \/ handle_sig
  \/ main_all_off
  \/ main_gpio_cleanup

\* main() executes its next statement; a signal may or may not arrive.
SpecLoop ==
  /\ InitLoop /\ [][NextLoop]_vars
  /\ WF_vars(main_while) /\ WF_vars(main_tick) /\ WF_vars(main_sleep)
  /\ WF_vars(main_all_off) /\ WF_vars(main_gpio_cleanup)

\* ------------------------------------------------- ThermostatMonitor
Without(q, i) == SubSeq(q, 1, i - 1) \o SubSeq(q, i + 1, Len(q))

\* self._after(ms, fn): queued on the Tk loop only while self._app is set
Monitor_after(mn, due) ==
  IF mn.app THEN [mn EXCEPT !.queued = Append(@, due)] ELSE mn

\* _tick in which an exception of controller.tick() escapes
ThermostatMonitor_tick_propagates(mn, m, raised) ==
  IF raised
  THEN [mn EXCEPT !.raised = TRUE]
  ELSE Monitor_after([mn EXCEPT !.raised = FALSE,
                                !.snap = [ts |-> m.t, temp_c |-> m.s.last_temp_c]],
                     m.t + PeriodS)

\* ThermostatMonitor._tick after self._ctrl.tick() has returned or raised:
\* the exception is swallowed, the snapshot is built from ctrl.s.last_temp_c
\* and handed to the listeners, and the next _tick is queued.
ThermostatMonitor_tick(mn, m, raised) ==
  Monitor_after([mn EXCEPT !.raised = raised,
                           !.snap = [ts |-> m.t, temp_c |-> m.s.last_temp_c]],
                m.t + PeriodS)

\* start_monitoring(app): self._app = app; self._after(0, self._tick)
Monitor_start_monitoring ==
  /\ Running /\ ~monitor.app
  /\ Len(monitor.queued) < MaxQueued
  /\ monitor' = Monitor_after([monitor EXCEPT !.app = TRUE], now)
  /\ op' = "start_monitoring"
  /\ UNCHANGED <<app, closed, cfg, s, o, now, pending, pre, raw, log, cool_off_at, cool_idle_at,
                 reads>>
  /\ UNCHANGED <<schedvars, relayvars, sysvars, loopvars>>

\* stop(): self._app = None; a _tick already queued stays queued
Monitor_stop ==
  /\ Running /\ monitor.app
  /\ monitor' = [monitor EXCEPT !.app = FALSE]
  /\ op' = "stop"
  /\ UNCHANGED <<app, closed, cfg, s, o, now, pending, pre, raw, log, cool_off_at, cool_idle_at,
                 reads>>
  /\ UNCHANGED <<schedvars, relayvars, sysvars, loopvars>>

\* The Tk loop runs a queued _tick that is due.  sensor.read_c() is the
\* first statement of controller.tick(): when it raises (a DS18B20 read that
\* fails) the controller has changed nothing.
Monitor_tick ==
  /\ Running
  /\ \E i \in DOMAIN monitor.queued, reading \in Temps, raised \in BOOLEAN :
       /\ monitor.queued[i] <= now
       /\ raised => sensor.kind = "ds18b20"
       /\ \E m \in {IF raised THEN Machine ELSE tick(Machine, cfg, reading)} :
            /\ Committed("_tick", m)
            /\ monitor' = ThermostatMonitor_tick(
                             [monitor EXCEPT !.queued = Without(@, i)], m, raised)
       /\ raw' = IF raised THEN raw ELSE reading
  /\ UNCHANGED <<app, closed, cfg, pending>>
  /\ UNCHANGED <<schedvars, relayvars, sysvars, loopvars>>

InitMonitor ==
  /\ app = "ui_touch"
  /\ CtlInit /\ cfg.mode = "auto"
  /\ SchedInit(NoFile, 0)
  /\ RelayInit(TRUE)
  /\ boot = "running"
  /\ sensor \in [kind : {"mock", "ds18b20"}, exists : {TRUE}]
  /\ refused = "no"
  /\ changes = 0
  /\ LoopInit
  /\ MonInit

NextMonitor ==
  \/ Monitor_start_monitoring
  \/ Monitor_stop
  \/ Monitor_tick
  \/ AdvanceTime

SpecMonitor == InitMonitor /\ [][NextMonitor]_vars

\* --------------------------------------- the live control configuration
\* An attribute of the shared Control object is assigned while the loop
\* runs, as the Settings screen does with setattr(app.cfg.control, ...).
ControlChanges ==
  [field : {"mode"}, value : Modes] \cup
  [field : {"setpoint_c"}, value : Setpoints] \cup
  [field : {"deadband_c"}, value : Deadbands] \cup
  [field : {"reading_offset_c"}, value : Offsets] \cup
  [field : {"compressor_min_off_s"}, value : {CompressorMinOffS, LongMinOffS}] \cup
  [field : {"fan_lead_s"}, value : {FanLeadS, FanLeadS + 1}] \cup
  [field : {"fan_lag_s"}, value : {FanLagS, FanLagS + 1}]

set_control ==
  /\ Running
  /\ changes < MaxChanges
  /\ \E ch \in ControlChanges :
       /\ cfg[ch.field] # ch.value
       /\ cfg' = [cfg EXCEPT ![ch.field] = ch.value]
  /\ changes' = changes + 1
  /\ op' = "set_control"
  /\ UNCHANGED <<app, closed, s, o, now, pending, pre, raw, log, cool_off_at, cool_idle_at, reads>>
  /\ UNCHANGED <<schedvars, relayvars, boot, sensor, refused, loopvars, monitor>>

InitConfig ==
  /\ app = "app"
  /\ CtlInit /\ cfg.mode = "auto"
  /\ SchedInit(NoFile, 0)
  /\ RelayInit(TRUE)
  /\ Started

NextConfig ==
  \/ control_tick
  \/ set_control
  \/ AdvanceTime

SpecConfig == InitConfig /\ [][NextConfig]_vars

\* ------------------------------------------------- one RelayOut by itself
\* A call on the relay: what was requested, what was cached, whether
\* GPIO.output ran.
Called(name, on) ==
  /\ rcall.calls < MaxCalls
  /\ relay' = RelayOut_drive(relay, on)
  /\ rcall' = [name |-> name, on |-> on, was |-> relay.state,
               wrote |-> (relay'.writes # relay.writes), calls |-> rcall.calls + 1]
  /\ UNCHANGED <<ctlvars, schedvars, sysvars, loopvars, monitor>>

RelayOut_call_set == \E on \in BOOLEAN : Called("set", on)
RelayOut_on == Called("on", TRUE)
RelayOut_off == Called("off", FALSE)

InitRelay ==
  /\ app = "app"
  /\ CtlInit /\ cfg.mode = "auto"
  /\ SchedInit(NoFile, 0)
  /\ \E active_low \in BOOLEAN : RelayInit(active_low)
  /\ Started

NextRelay ==
  \/ RelayOut_call_set
  \/ RelayOut_on
  \/ RelayOut_off

SpecRelay == InitRelay /\ [][NextRelay]_vars

TypeOK ==
  /\ app \in Apps
  /\ closed \in BOOLEAN
  /\ cfg.mode \in Modes
  /\ s.current_mode \in {"idle", "heating", "cooling", "off"}
  /\ o \in [Relays -> BOOLEAN]
  /\ now \in 0..(MaxTime + FanLagS + FanLeadS)

\* ================================================================ claims
AllOff == ~o.heat /\ ~o.cool /\ ~o.fan
InBand(c, t) == c.setpoint_c - c.deadband_c <= t /\ t <= c.setpoint_c + c.deadband_c
IsStopSequence(l, i) ==
  /\ i >= 3 /\ i <= Len(l)
  /\ l[i - 2].relay = "heat" /\ ~l[i - 2].on /\ l[i - 2].by = "hvac_off_with_fan_lag"
  /\ l[i - 1].relay = "cool" /\ ~l[i - 1].on /\ l[i - 1].by = "hvac_off_with_fan_lag"
  /\ l[i].relay = "fan" /\ ~l[i].on /\ l[i].by = "hvac_off_with_fan_lag"

\* C1: after every tick executed while the configured mode is off, whatever
\* the controller state and the relay states it started from, the heat, cool
\* and fan relays are all logically off and current_mode is off.
C1_OffTickAllOff ==
  (op \in TickOps /\ cfg.mode = "off") => (AllOff /\ s.current_mode = "off")

\* C2: the cool relay is never switched on while fewer than
\* compressor_min_off_s seconds have passed since it was last switched off,
\* whatever ticks and configuration changes came in between.
C2_MinOffAllActivations ==
  \A i \in CoolOnWrites(log) :
    cool_off_at = None \/ log[i].at - cool_off_at >= cfg.compressor_min_off_s

\* C3: after a cooling -> idle stop, cooling is not re-entered (the cool_on
\* sequence does not even begin) until at least compressor_min_off_s seconds
\* after the moment that stop switched the compressor off.
C3_NoEarlyReentry ==
  \A i \in DOMAIN log :
    (log[i].by = "cool_on" /\ cool_idle_at # None)
      => log[i].at - cool_idle_at >= cfg.compressor_min_off_s

C3_Witness ==
  /\ op \in TickOps /\ s.current_mode = "cooling" /\ pre.current_mode = "idle"
  /\ cool_idle_at # None
  /\ CoolOnWrites(log) # {}

C5_FanLeadsHvac ==
  \A i \in DOMAIN log :
    (log[i].relay \in {"heat", "cool"} /\ log[i].on) =>
      /\ i >= 3
      /\ log[i - 2].relay = (IF log[i].relay = "heat" THEN "cool" ELSE "heat")
      /\ ~log[i - 2].on
      /\ log[i - 1].relay = "fan" /\ log[i - 1].on
      /\ log[i - 2].at <= log[i - 1].at
      /\ log[i].at - log[i - 1].at >= cfg.fan_lead_s
      /\ o.fan

C5_Witness ==
  /\ op \in TickOps /\ pre.current_mode = "heating" /\ s.current_mode = "cooling"
  /\ \E i \in CoolOnWrites(log) : log[i].at - log[i - 1].at = cfg.fan_lead_s

\* C6: whenever a tick stops heating or cooling through
\* hvac_off_with_fan_lag, heat and cool go off first, the fan relay is still
\* on from then until it is switched off, and that happens no earlier than
\* fan_lag_s seconds after the heat and cool relays went off.
C6_FanLagsHvac ==
  \A i \in DOMAIN log :
    (log[i].relay = "fan" /\ log[i].by = "hvac_off_with_fan_lag") =>
      /\ IsStopSequence(log, i)
      /\ log[i].was
      /\ log[i].at - log[i - 1].at >= cfg.fan_lag_s

\* C7: with fan_mode manual, a tick that ends with current_mode idle leaves
\* the fan relay logically on.
C7_ManualFanOn ==
  (op \in TickOps /\ s.fan_mode = "manual" /\ s.current_mode = "idle") => o.fan

\* C8: after a tick last_temp_c is the raw reading plus reading_offset_c.
C8_OffsetApplied ==
  op \in TickOps => s.last_temp_c = raw + cfg.reading_offset_c

\* C9 as stated: in mode auto, a tick that starts in cooling and reads a
\* temperature inside the band leaves current_mode cooling and the relays
\* unchanged.
C9_InBandKeepsCooling ==
  (op \in TickOps /\ pre.current_mode = "cooling" /\ cfg.mode = "auto"
     /\ InBand(cfg, raw))
    => (s.current_mode = "cooling" /\ o = pre.o)

\* C9 amended: in mode auto, a tick that starts in cooling and reads a
\* temperature inside the band stops cooling: it returns with current_mode
\* idle, last_cool_off_at stamped and heat, cool and fan relays off.
C9_InBandStopsCooling ==
  (op \in TickOps /\ pre.current_mode = "cooling" /\ cfg.mode = "auto"
     /\ InBand(cfg, raw))
    => (s.current_mode = "idle" /\ AllOff /\ s.last_cool_off_at # None)

C9_Witness ==
  /\ op \in TickOps /\ pre.current_mode = "cooling" /\ cfg.mode = "auto"
  /\ cfg.setpoint_c = 220 /\ cfg.deadband_c = 5 /\ raw = 223
  /\ pre.o.cool

\* C10: a tick that starts in cooling in mode cool or auto keeps cooling,
\* touching no relay, exactly when temp > setpoint + deadband; otherwise, with
\* no heat call, it runs hvac_off_with_fan_lag, records last_cool_off_at at
\* the moment of the stop and ends idle.  A tick that starts in heating in
\* mode heat or auto keeps heating exactly when temp < setpoint - deadband
\* and otherwise stops it through hvac_off_with_fan_lag.
C10_StopAtThreshold ==
  /\ (op \in TickOps /\ pre.current_mode = "cooling" /\ cfg.mode \in {"cool", "auto"}) =>
       IF raw > cfg.setpoint_c + cfg.deadband_c
       THEN s.current_mode = "cooling" /\ log = <<>>
       ELSE /\ IsStopSequence(log, 3)
            /\ s.last_cool_off_at = log[2].at
            /\ ~o.cool
            /\ (~heat_call(cfg, raw) => (s.current_mode = "idle" /\ Len(log) = 3))
  /\ (op \in TickOps /\ pre.current_mode = "heating" /\ cfg.mode \in {"heat", "auto"}) =>
       IF raw < cfg.setpoint_c - cfg.deadband_c
       THEN s.current_mode = "heating" /\ log = <<>>
       ELSE /\ IsStopSequence(log, 3)
            /\ ~o.heat
            /\ s.current_mode # "heating"

C10_Witness ==
  /\ op \in TickOps /\ pre.current_mode = "cooling" /\ cfg.mode \in {"cool", "auto"}
  /\ raw = cfg.setpoint_c + cfg.deadband_c
  /\ s.current_mode = "idle"

\* C11: in mode cool or auto, a tick that reads temp > setpoint + deadband,
\* starts with current_mode other than cooling and finds the compressor guard
\* open at its start (last_cool_off_at unset, or compressor_min_off_s elapsed)
\* returns with current_mode cooling, cool relay on, heat relay off, fan relay
\* on and last_cool_on_at stamped with the moment the cool relay went on.
C11_CoolingStarts ==
  (/\ op \in TickOps /\ cfg.mode \in {"cool", "auto"}
   /\ raw > cfg.setpoint_c + cfg.deadband_c
   /\ pre.current_mode # "cooling"
   /\ \/ pre.last_cool_off_at = None
      \/ pre.t - pre.last_cool_off_at >= cfg.compressor_min_off_s)
    => /\ s.current_mode = "cooling"
       /\ o.cool /\ ~o.heat /\ o.fan
       /\ CoolOnWrites(log) # {}
       /\ s.last_cool_on_at = log[Len(log)].at
       /\ s.last_cool_on_at = now

C11_Witness ==
  /\ op \in TickOps /\ pre.current_mode = "heating" /\ s.current_mode = "cooling"
  /\ pre.last_cool_off_at # None
  /\ pre.t - pre.last_cool_off_at >= cfg.compressor_min_off_s

\* --------------------------------------------------- schedule claims
\* What the claims call a day's list and a time of day.
Today == sch[DAYS[when.wd + 1]]
Yesterday == sch[DAYS[((when.wd + 6) % 7) + 1]]
DenotesTime(tm) ==
  \/ FormatOK(tm)
  \/ Len(tm) = 4 /\ tm[2] = Colon /\ \A i \in {1, 3, 4} : tm[i] \in 0..9
TimeOfDay(tm) ==
  IF Len(tm) = 5 THEN (10 * tm[1] + tm[2]) * 60 + 10 * tm[4] + tm[5]
  ELSE tm[1] * 60 + 10 * tm[3] + tm[4]
WellFormedList(evs) == \A i \in DOMAIN evs : FormatOK(evs[i].time)

\* C12: evaluate returns None only if neither today's list nor the previous
\* day's list has an event to offer (today has none at or before now and the
\* previous day is empty); whenever the previous day has an event and today
\* has none, or none at or before now, the result is the previous day's last
\* event.  (Stated for the lists the schedule loop evaluates, when their
\* times are all well-formed HH:MM.)
C12_NoneOnlyIfBothEmpty ==
  LET r == evaluate(sch, when)
  IN (op = "sched_loop" /\ WellFormedList(Today) /\ WellFormedList(Yesterday))
       => /\ ~r.found
               => /\ Yesterday = <<>>
                  /\ \A i \in DOMAIN Today : TimeOfDay(Today[i].time) > when.tod
          /\ (/\ Yesterday # <<>>
              /\ \A i \in DOMAIN Today : TimeOfDay(Today[i].time) > when.tod)
               => r = Found(Yesterday[Len(Yesterday)])

\* C13: with well-formed lists and a time of day before today's first event,
\* evaluate returns the last event of the previous weekday (Sunday for
\* Monday), or None if that day has no events; at the exact minute of
\* today's first event it returns an event of today at that minute.
C13_WrapAround ==
  LET r == evaluate(sch, when)
  IN (WellFormedList(Today) /\ WellFormedList(Yesterday) /\ Today # <<>>)
       => /\ when.tod < TimeOfDay(Today[1].time)
               => r = IF Yesterday # <<>> THEN Found(Yesterday[Len(Yesterday)])
                      ELSE NoEvent
          /\ when.tod = TimeOfDay(Today[1].time)
               => \E i \in DOMAIN Today :
                    /\ Today[i].time = Today[1].time
                    /\ r = Found(Today[i])

\* Monday before its first event, Sunday's last event was applied.
C13_Witness ==
  /\ op = "sched_loop" /\ applied_at = when /\ when.wd = 0
  /\ WellFormedList(Today) /\ Today # <<>>
  /\ when.tod < TimeOfDay(Today[1].time)
  /\ sch["sunday"] # <<>>
  /\ res = Found(sch["sunday"][Len(sch["sunday"])])
  /\ cfg.mode = res.mode /\ cfg.setpoint_c = res.setpoint_c

\* C14: for every loaded day list and every now at or after that day's
\* first event, evaluate returns the event with the greatest time of day
\* that is <= now (the last qualifying event).
C14_LastQualifying ==
  LET r == evaluate(sch, when)
      Q == {i \in DOMAIN Today : TimeOfDay(Today[i].time) <= when.tod}
  IN (op = "sched_loop" /\ (\A i \in DOMAIN Today : DenotesTime(Today[i].time)) /\ Q # {})
       => /\ r.found
          /\ \E i \in Q :
               /\ \A j \in Q : TimeOfDay(Today[j].time) <= TimeOfDay(Today[i].time)
               /\ r = Found(Today[i])

\* C15: once a result has been applied in the current minute, every further
\* call of apply_schedule_if_due in that minute leaves cfg.mode,
\* cfg.setpoint_c and the dedup key unchanged, whatever the user did since.
C15_IdempotentPerMinute ==
  (op = "sched_loop" /\ spre.applied_at = when)
    => /\ cfg.mode = spre.mode
       /\ cfg.setpoint_c = spre.setpoint_c
       /\ last_applied = spre.key
       /\ last_applied = strftime_key(when)

\* The user switched the power off after the event was applied; a further
\* call in the same minute would have found the event again.
C15_Witness ==
  /\ op = "sched_loop" /\ spre.applied_at = when
  /\ cfg.mode = "off"
  /\ evaluate(sch, when).found /\ evaluate(sch, when).mode # "off"

\* --------------------------------------------------- relay claims
HwWrites(l) == {i \in DOMAIN l : l[i].wrote}

\* C16: from any relay states, all_off() called twice in succession issues
\* at most one hardware write per relay in total, and the second call issues
\* no hardware write at all.
C16_AllOffTwice ==
  LET a == all_off(Machine)
      b == all_off([a EXCEPT !.log = <<>>])
  IN /\ HwWrites(b.log) = {}
     /\ \A r \in Relays :
          Cardinality({i \in HwWrites(a.log) : a.log[i].relay = r}) <= 1
     /\ (op = "on_close" /\ pre.o = [r \in Relays |-> FALSE]) => HwWrites(log) = {}

\* all_off() of the shutdown ran right on relays an off-mode tick's all_off()
\* had switched off, while before that tick the compressor was running.
C16_Witness ==
  /\ op = "on_close" /\ pre.current_mode = "off"
  /\ pre.o = [r \in Relays |-> FALSE]
  /\ Len(log) = 3 /\ HwWrites(log) = {}
  /\ cool_off_at # None

\* C17: for a RelayOut of either polarity, a call writes to the pin exactly
\* when the requested state differs from the cached one, and the cached state
\* is the logical state of the level last driven (on = LOW when active-low,
\* HIGH when active-high), starting from the logical-off level.
C17_CacheMatchesPin ==
  /\ relay.state = IF relay.active_low THEN relay.level = "LOW"
                   ELSE relay.level = "HIGH"
  /\ rcall.name # "init" => (rcall.wrote <=> rcall.on # rcall.was)
  /\ rcall.name # "init" => relay.state = rcall.on
  /\ rcall.name = "init" =>
       relay.level = IF relay.active_low THEN "HIGH" ELSE "LOW"

\* An active-high relay was switched on, then a repeated on() wrote nothing.
C17_Witness ==
  /\ ~relay.active_low /\ relay.level = "HIGH"
  /\ rcall.name = "on" /\ rcall.was /\ ~rcall.wrote
  /\ relay.writes >= 3

\* --------------------------------------------------- schedule file claims
SortedByTimeOfDay(evs) ==
  \A i, j \in DOMAIN evs : i < j => TimeOfDay(evs[i].time) <= TimeOfDay(evs[j].time)
NoDuplicateTimes(evs) ==
  \A i, j \in DOMAIN evs : i < j => TimeOfDay(evs[i].time) # TimeOfDay(evs[j].time)
WellFormedFile(f) ==
  \A k \in DOMAIN f : \A i \in DOMAIN f[k].recs : FormatOK(f[k].recs[i].time)
\* what a record of the file becomes when it is loaded
Loaded(r) == Event(r.time, r.mode, r.setpoint_c)
Malformed(r) == ~FormatOK(r.time) \/ r.sp_text \/ r.missing # {}

\* C18: the file the editor's save writes (every day but the edited one is
\* simply loaded and saved again) is a fixed point of save_schedule after
\* load_schedule, and each of its days is sorted by time, deduplicated by
\* time of day and capped at 6 events.  (Stated for well-formed time strings.)
C18_RoundTrip ==
  (op = "save_day" /\ WellFormedFile(file))
    => /\ save_schedule(load_schedule(file)) = file
       /\ \A k \in DOMAIN file :
            /\ SortedByTimeOfDay(file[k].recs)
            /\ NoDuplicateTimes(file[k].recs)
            /\ Len(file[k].recs) <= MaxEvents

\* C19: after load_schedule and after every save of the editor, each
\* weekday's list is sorted ascending by time of day, has no two events with
\* the same time of day, and has at most 6 events.  (Stated for the days
\* whose time strings are all well-formed.)
C19_DayListInvariant ==
  \A d \in DayNames :
    WellFormedList(ed_sch[d]) =>
    /\ SortedByTimeOfDay(ed_sch[d])
    /\ NoDuplicateTimes(ed_sch[d])
    /\ Len(ed_sch[d]) <= MaxEvents

\* C20: in the schedule load_schedule builds from the file, every record
\* with a bad time format, an unparsable setpoint or a missing field is
\* absent, and every well-formed record is present, up to six per day.
C20_MalformedSkipped ==
  LET L == load_schedule(file)
  IN \A d \in DayNames :
       LET recs == data_get(file, d)
           good == SelectSeq(recs, LAMBDA r : ~Malformed(r))
       IN /\ \A i \in DOMAIN recs :
               Malformed(recs[i]) => \A j \in DOMAIN L[d] : L[d][j] # Loaded(recs[i])
          /\ \A i \in DOMAIN good :
               i <= MaxEvents => \E j \in DOMAIN L[d] : L[d][j] = Loaded(good[i])

\* C21: the file save_schedule writes has each day's events in ascending
\* time order and its day keys in the weekday order monday, tuesday, ...,
\* sunday.
C21_WeekdayKeyOrder ==
  op = "save_day"
    => /\ [k \in DOMAIN file |-> file[k].day] = DAYS
       /\ WellFormedFile(file) =>
            \A k \in DOMAIN file : SortedByTimeOfDay(file[k].recs)

\* --------------------------------------------------- shutdown claims
\* C22: on every exit path of every entry point all_off() runs before the
\* process ends, so once an entry point has shut down no heat, cool or fan
\* relay is logically on.
C22_ShutdownAllOff == closed => AllOff

\* --------------------------------------------------- tick claims
\* C24: last_temp_c is unset before the first tick; after every tick, in
\* every mode (off included) and whatever the tick did, it holds the
\* temperature that tick sampled, the sensor having been read exactly once.
C24_LastTempIsThisTick ==
  /\ raw = None => s.last_temp_c = None
  /\ op \in TickOps => /\ s.last_temp_c = raw /\ raw # None
                       /\ s.last_tick_at = pre.t
                       /\ reads = 1
  /\ op \notin TickOps => reads = 0
  /\ s.last_temp_c = raw

\* A tick in mode off that changed nothing else replaced an earlier reading.
C24_Witness ==
  /\ op \in TickOps /\ cfg.mode = "off" /\ pre.current_mode = "off"
  /\ s.last_temp_c = raw /\ raw = 226 /\ log = <<>>
  /\ s.last_tick_at > 0

\* C28: any tick with heat_call asserted and current_mode not heating
\* returns heating with the heat relay on, the cool relay off and the fan
\* on, however recently cooling stopped; a tick that started in cooling
\* first stops it with the fan lag and records last_cool_off_at.
C28_HeatingStarts ==
  (op \in TickOps /\ heat_call(cfg, raw) /\ pre.current_mode # "heating")
    => /\ s.current_mode = "heating"
       /\ o.heat /\ ~o.cool /\ o.fan
       /\ log[Len(log)].relay = "heat" /\ log[Len(log)].on /\ log[Len(log)].wrote
       /\ pre.current_mode = "cooling"
            => /\ IsStopSequence(log, 3)
               /\ log[3].at - log[2].at = cfg.fan_lag_s
               /\ s.last_cool_off_at = pre.t

\* Cooling went straight to heating within one tick.
C28_Witness ==
  /\ op \in TickOps /\ heat_call(cfg, raw)
  /\ pre.current_mode = "cooling" /\ s.current_mode = "heating"
  /\ s.last_cool_off_at = pre.t /\ Len(log) = 6 /\ o.heat

\* C30: the heat relay and the cool relay are never both logically on, in
\* no state between handlers and in no intermediate state inside a handler
\* (after each of its set() calls, replayed from the relays it started with).
RECURSIVE RelaysAfter(_, _, _)
RelaysAfter(o0, l, k) ==
  IF k = 0 THEN o0
  ELSE [RelaysAfter(o0, l, k - 1) EXCEPT ![l[k].relay] = l[k].on]

C30_NeverHeatAndCool ==
  /\ ~(o.heat /\ o.cool)
  /\ RelaysAfter(pre.o, log, Len(log)) = o
  /\ \A k \in 0..Len(log) :
       ~(RelaysAfter(pre.o, log, k).heat /\ RelaysAfter(pre.o, log, k).cool)

\* Heating went straight to cooling within one tick: six set() calls.
C30_Witness ==
  /\ op \in TickOps /\ pre.current_mode = "heating" /\ pre.o.heat
  /\ s.current_mode = "cooling" /\ o.cool /\ Len(log) = 6

\* --------------------------------------------------- configuration claims
\* C23: a runtime change of a control configuration field is in effect for
\* the first tick that starts after it: the tick decides with the current
\* mode, setpoint, deadband and minimum-off time, and the waits of heat_on,
\* cool_on and hvac_off_with_fan_lag in it are the current fan_lead_s and
\* fan_lag_s.
C23_ConfigInEffect ==
  op \in TickOps
    => /\ cfg.mode = "off" => s.current_mode = "off"
       /\ (cfg.mode # "off" /\ ~cool_call(cfg, raw) /\ ~heat_call(cfg, raw))
            => s.current_mode \in {"idle", "off"}
       /\ (heat_call(cfg, raw) /\ ~cool_call(cfg, raw)) => s.current_mode = "heating"
       /\ (cool_call(cfg, raw) /\ s.current_mode # "cooling")
            => /\ s.last_cool_off_at # None
               /\ now - s.last_cool_off_at < cfg.compressor_min_off_s
       /\ \A i \in DOMAIN log :
            /\ (log[i].by \in {"heat_on", "cool_on"} /\ log[i].relay \in {"heat", "cool"}
                /\ log[i].on)
                 => log[i].at - log[i - 1].at = cfg.fan_lead_s
            /\ (log[i].by = "hvac_off_with_fan_lag" /\ log[i].relay = "fan")
                 => log[i].at - log[i - 1].at = cfg.fan_lag_s

\* A tick whose cooling demand the compressor guard refused.
BlockedTick ==
  /\ op \in TickOps /\ cool_call(cfg, raw)
  /\ pre.current_mode # "cooling" /\ s.current_mode # "cooling"

\* C27 as stated: when the guard blocks a cooling start, _start_cooling
\* writes no relay and leaves last_cool_on_at and last_cool_off_at alone, and
\* the tick returns with the current_mode it started with.
C27_BlockedKeepsMode ==
  BlockedTick
    => /\ \A i \in DOMAIN log : log[i].by # "cool_on"
       /\ ~o.cool
       /\ s.last_cool_on_at = pre.last_cool_on_at
       /\ s.last_cool_off_at = pre.last_cool_off_at
       /\ s.current_mode = pre.current_mode

\* C27 (amended): when the guard blocks a cooling start, _start_cooling
\* writes no relay and leaves current_mode, last_cool_on_at and
\* last_cool_off_at as they were when the start was attempted; the tick
\* returns with the current_mode it started with, except that a tick that
\* started in heating has stopped heating with the fan lag before the
\* attempt and returns idle.
C27_BlockedKeepsModeUnlessHeating ==
  BlockedTick
    => /\ \A i \in DOMAIN log : log[i].by # "cool_on"
       /\ ~o.cool
       /\ s.last_cool_on_at = pre.last_cool_on_at
       /\ s.last_cool_off_at = pre.last_cool_off_at
       /\ pre.current_mode # "heating" => (s.current_mode = pre.current_mode /\ log = <<>>)
       /\ pre.current_mode = "heating"
            => /\ s.current_mode = "idle"
               /\ Len(log) = 3 /\ IsStopSequence(log, 3)
               /\ AllOff

\* Heating was stopped, then the guard refused the cooling start.
C27_Witness ==
  /\ BlockedTick /\ pre.current_mode = "heating" /\ s.current_mode = "idle"
  /\ now - s.last_cool_off_at < cfg.compressor_min_off_s

\* C29: for every mode, temperature, setpoint and deadband >= 0 (deadband 0
\* and temperature = setpoint included), cool_call and heat_call are never
\* both true.
C29_CallsExclusive ==
  /\ cfg.deadband_c >= 0
  /\ \A t \in Temps : ~(cool_call(cfg, t) /\ heat_call(cfg, t))
  /\ op \in TickOps => ~(cool_call(cfg, raw) /\ heat_call(cfg, raw))

\* Deadband 0 in auto mode, and the tick read exactly the setpoint.
C29_Witness ==
  /\ op \in TickOps /\ cfg.mode = "auto" /\ cfg.deadband_c = 0
  /\ raw = cfg.setpoint_c
  /\ ~cool_call(cfg, raw) /\ ~heat_call(cfg, raw)
  /\ s.current_mode = "idle"

\* --------------------------------------------------- startup claims
\* C25: if the physical sensor's device path does not exist, build_runtime
\* raises before a controller is returned: no tick is ever executed and the
\* three relays stay at the logical-off state they were constructed with.
C25_MissingSensorFailsStartup ==
  /\ (sensor.kind = "ds18b20" /\ ~sensor.exists) => boot # "running"
  /\ boot = "failed"
       => /\ sensor.kind = "ds18b20" /\ ~sensor.exists
          /\ op = "build_runtime"
          /\ raw = None /\ s.last_tick_at = None /\ s.last_temp_c = None
          /\ s.current_mode = "idle"
          /\ AllOff /\ log = <<>>
  /\ boot = "start" => op = "init"

C25_Witness ==
  /\ boot = "failed" /\ op = "build_runtime"
  /\ sensor.kind = "ds18b20" /\ ~sensor.exists /\ AllOff

\* --------------------------------------------------- liveness claims
\* The last reading asserts a cooling call under the configured mode.
HotDemand == raw # None /\ cool_call(cfg, raw)

\* C26: if the loop keeps running and from some point on the mode stays cool
\* or auto and every reading is above setpoint + deadband, then after any
\* moment current_mode is eventually cooling with the cool relay on: a
\* cooling demand the guard refuses is retried until it is granted.
C26_RetryUntilCooling ==
  ([]~closed /\ <>[]HotDemand) => []<>(s.current_mode = "cooling" /\ o.cool)

\* Cooling has started on a retry after the guard had refused the demand.
C26_Witness ==
  /\ op = "control_tick" /\ refused = "retried"
  /\ s.current_mode = "cooling" /\ o.cool /\ HotDemand
  /\ pre.current_mode = "idle"

\* ------------------------------------------------- claims on the fan relay
\* C31: in every state, between handlers and after each set() call inside a
\* handler, the fan relay is logically on whenever the heat relay or the
\* cool relay is logically on, the timed fan test included.
C31_FanWheneverHvac ==
  /\ (o.heat \/ o.cool) => o.fan
  /\ \A k \in 0..Len(log) :
       (RelaysAfter(pre.o, log, k).heat \/ RelaysAfter(pre.o, log, k).cool)
         => RelaysAfter(pre.o, log, k).fan

\* ------------------------------------------- claims on schedule application
\* C32: when apply_schedule_if_due runs in a minute other than the one of
\* the dedup key and evaluate returns a result, cfg.mode and cfg.setpoint_c
\* are that result afterwards, whatever they were, and the dedup key is the
\* key of this minute; when evaluate returns None, mode, setpoint and dedup
\* key are as they were before the call.
C32_ResultReapplied ==
  (op = "sched_loop" /\ spre.key # strftime_key(when)) =>
    LET r == evaluate(sch, when)
    IN IF r.found
       THEN /\ cfg.mode = r.mode /\ cfg.setpoint_c = r.setpoint_c
            /\ last_applied = strftime_key(when)
            /\ applied_at = when
       ELSE /\ cfg.mode = spre.mode /\ cfg.setpoint_c = spre.setpoint_c
            /\ last_applied = spre.key
            /\ applied_at = spre.applied_at

\* A result was applied before, the mode was then set to off by hand, and a
\* later minute puts the scheduled mode back.
C32_Witness ==
  /\ op = "sched_loop" /\ spre.key # strftime_key(when)
  /\ spre.key # NoKey /\ spre.mode = "off"
  /\ evaluate(sch, when).found /\ cfg.mode = evaluate(sch, when).mode
  /\ cfg.mode # "off" /\ cfg.setpoint_c = spre.setpoint_c

\* --------------------------------------------- claims on the controller state
\* C33: last_cool_off_at is unset until a stop has left cooling.  A handler
\* changes it only if it is a tick that started in cooling and ran the
\* hvac_off_with_fan_lag sequence first; the new value is the moment the
\* tick began the stop, which is when the cool relay went off and at least
\* fan_lag_s before the fan went off.  A tick that stops heating leaves
\* last_cool_off_at as it was, and last_cool_on_at too unless the same tick
\* goes on to start cooling.
C33_LastCoolOffWrittenByCoolingStop ==
  /\ s.last_cool_off_at = cool_idle_at
  /\ s.last_cool_off_at # pre.last_cool_off_at =>
       /\ op \in TickOps /\ pre.current_mode = "cooling"
       /\ IsStopSequence(log, 3)
       /\ s.last_cool_off_at = pre.t
       /\ s.last_cool_off_at = log[2].at
       /\ log[3].at - s.last_cool_off_at >= cfg.fan_lag_s
  /\ (op \in TickOps /\ pre.current_mode = "heating") =>
       /\ s.last_cool_off_at = pre.last_cool_off_at
       /\ s.current_mode # "cooling" => s.last_cool_on_at = pre.last_cool_on_at

\* Heating is stopped after cooling had been stopped before: the old stamp
\* is still there.
C33_Witness ==
  /\ op \in TickOps /\ pre.current_mode = "heating" /\ s.current_mode = "idle"
  /\ IsStopSequence(log, 3)
  /\ s.last_cool_off_at # None /\ s.last_cool_off_at = pre.last_cool_off_at
  /\ s.last_cool_on_at # None

\* ------------------------------------------------ claims on the headless loop
\* Every tick of the loop has run to its end: the relays agree with
\* current_mode and the time it took is the sum of the waits it made.
TickCompleted ==
  /\ s.current_mode = "heating" => (o.heat /\ o.fan /\ ~o.cool)
  /\ s.current_mode = "cooling" => (o.cool /\ o.fan /\ ~o.heat)
  /\ s.current_mode \in {"idle", "off"} => AllOff
  /\ Len(log) \in {0, 3, 6}
  /\ now - pre.t \in {0, FanLeadS, FanLagS, FanLagS + FanLeadS}
  /\ s.last_tick_at = pre.t /\ s.last_temp_c = raw

ShutDown == pc = "done" /\ closed /\ AllOff

\* C34 as stated: in the headless loop no tick starts once the handler has
\* cleared the run flag, every tick runs to completion, and when the loop
\* has ended all_off() and then the GPIO cleanup have run.
C34_NoTickAfterSignal ==
  /\ late = 0
  /\ op = "control_tick" => TickCompleted
  /\ pc = "gpio_cleanup" => AllOff
  /\ closed => ShutDown

\* C34 amended: once the handler has cleared the run flag at most one more
\* tick starts, the one whose `while RUN` test had already passed; every
\* tick, one in progress when the signal arrives included, runs to
\* completion; then the loop ends, all_off() runs, after it the GPIO
\* cleanup, and main() returns with every relay off.
C34_CooperativeShutdown ==
  /\ [](late <= 1)
  /\ []((~RUN /\ pc = "while") => [](pc # "tick"))
  /\ [](op = "control_tick" => TickCompleted)
  /\ [](pc = "gpio_cleanup" => AllOff)
  /\ [](closed => ShutDown)
  /\ [](~RUN => <>ShutDown)

\* The run flag was cleared after the loop test had passed: one more tick
\* ran, it started cooling, and the shutdown then switched the relays off.
C34_Witness ==
  /\ ShutDown /\ late = 1 /\ ~RUN
  /\ op = "gpio_cleanup" /\ Len(log) = 3
  /\ pre.current_mode = "cooling" /\ pre.o.cool /\ pre.o.fan

\* ------------------------------------------------ claims on the monitor
\* C35: while the monitor is started and not stopped a _tick is always
\* queued; every execution of _tick, one in which controller.tick() raised
\* included, has published a snapshot (taken now, with the controller's
\* last_temp_c) and has queued the next _tick period_ms after it.
C35_TickingContinues ==
  /\ monitor.app => monitor.queued # <<>>
  /\ op = "_tick" => (monitor.snap.ts = now /\ monitor.snap.temp_c = s.last_temp_c)
  /\ (op = "_tick" /\ monitor.app) =>
       /\ monitor.queued # <<>>
       /\ monitor.queued[Len(monitor.queued)] = now + PeriodS

\* controller.tick() raised in a _tick after earlier ticks had run: the
\* snapshot still went out, with the temperature of the last good tick.
C35_Witness ==
  /\ op = "_tick" /\ monitor.raised /\ monitor.app
  /\ monitor.snap.ts = now /\ monitor.snap.temp_c # None
  /\ s.last_tick_at # None /\ s.last_tick_at < now
  /\ Len(monitor.queued) = 1 /\ monitor.queued[1] = now + PeriodS
  /\ s.current_mode = "cooling" /\ o.cool

\* ------------------------------------------------ claims on the tick's frame
\* C36: a tick that returns with the current_mode it started with has made
\* no call on any relay, has not waited, and has changed nothing of the
\* controller state but last_temp_c and last_tick_at: the relays and the
\* compressor timestamps are as they were.
C36_SameModeTouchesNothing ==
  (op \in TickOps /\ s.current_mode = pre.current_mode) =>
    /\ log = <<>>
    /\ o = pre.o
    /\ now = pre.t
    /\ s.last_cool_off_at = pre.last_cool_off_at
    /\ s.last_cool_on_at = pre.last_cool_on_at
    /\ s.last_temp_c = raw /\ s.last_tick_at = pre.t

\* Mode off while already off, with the fan relay left on by the fan test:
\* the tick does not touch it.
C36_Witness ==
  /\ op = "control_tick" /\ cfg.mode = "off"
  /\ pre.current_mode = "off" /\ s.current_mode = "off"
  /\ log = <<>> /\ o.fan /\ s.last_tick_at = now

\* The handler's calls were exactly all_off(): heat, cool, fan off.
IsAllOffLog(l) ==
  /\ Len(l) = 3
  /\ \A i \in 1..3 : l[i].by = "all_off" /\ ~l[i].on
  /\ l[1].relay = "heat" /\ l[2].relay = "cool" /\ l[3].relay = "fan"

\* The configured mode permits the running function.
Permits(md, fn) ==
  (fn = "cooling" => md \in {"cool", "auto"}) /\ (fn = "heating" => md \in {"heat", "auto"})

\* C37: at the end of every tick current_mode cooling implies configured
\* mode cool or auto and current_mode heating implies heat or auto.  A tick
\* that starts in a function the configured mode does not permit stops it
\* whatever the temperature: by all_off() in mode off (ending off), else by
\* the hvac_off_with_fan_lag sequence with its fan_lag_s wait.
C37_ModePermitsFunction ==
  op \in TickOps =>
    /\ Permits(cfg.mode, s.current_mode)
    /\ (pre.current_mode \in {"heating", "cooling"}
          /\ ~Permits(cfg.mode, pre.current_mode)) =>
         IF cfg.mode = "off"
         THEN IsAllOffLog(log) /\ s.current_mode = "off" /\ AllOff
         ELSE /\ IsStopSequence(log, 3)
              /\ log[3].at - log[2].at >= cfg.fan_lag_s
              /\ s.current_mode # pre.current_mode
              /\ ~o[IF pre.current_mode = "cooling" THEN "cool" ELSE "heat"]

\* Cooling was running, the mode was switched to heat, and the next tick
\* stopped it although the reading still was above setpoint + deadband.
C37_Witness ==
  /\ op \in TickOps /\ pre.current_mode = "cooling" /\ cfg.mode = "heat"
  /\ raw > cfg.setpoint_c + cfg.deadband_c
  /\ s.current_mode = "idle" /\ IsStopSequence(log, 3) /\ AllOff

\* C38: no handler takes current_mode from off to idle.  A tick that starts
\* in off under mode heat, cool or auto and finds no heat or cool call ends
\* in off with no call on any relay; current_mode leaves off only in a tick
\* whose last three relay calls are a heat_on or cool_on sequence, and then
\* it is the function started.
C38_OffNeverToIdle ==
  pre.current_mode = "off" =>
    /\ s.current_mode # "idle"
    /\ (op \in TickOps /\ cfg.mode # "off"
          /\ ~cool_call(cfg, raw) /\ ~heat_call(cfg, raw)) =>
         (s.current_mode = "off" /\ log = <<>> /\ o = pre.o)
    /\ s.current_mode # "off" =>
         /\ op \in TickOps
         /\ Len(log) = 3
         /\ log[3].on /\ log[3].by = (IF s.current_mode = "heating" THEN "heat_on" ELSE "cool_on")
         /\ log[3].relay = (IF s.current_mode = "heating" THEN "heat" ELSE "cool")
         /\ o[log[3].relay] /\ o.fan

\* The mode was switched from off back to auto and the reading is inside
\* the band: the tick leaves current_mode off.
C38_Witness ==
  /\ op \in TickOps /\ pre.current_mode = "off" /\ cfg.mode = "auto"
  /\ InBand(cfg, raw)
  /\ s.current_mode = "off" /\ log = <<>> /\ s.last_tick_at = now

====
